---- MODULE Spec2Model ----
(***************************************************************************)
(* Model of main.py: the start-up sequence (API key configuration, model   *)
(* creation, UI definition and launch) and the Gradio click handler        *)
(* image_analyzer with its helper get_gemini_vision_response.              *)
(*                                                                         *)
(* Python strings that the program builds or returns are sequences of      *)
(* one-character strings, so that lower(), replace() and substring tests   *)
(* are computed and not assumed.  The element "CROSS_MARK" stands for the  *)
(* single code point U+274C.                                               *)
(***************************************************************************)
EXTENDS Naturals, Sequences, FiniteSets

VARIABLES
  phase,          \* position of the module-level start-up code
  cred,           \* os.environ["GOOGLE_API_KEY"]: "absent", "empty" or "valid"
  fromarrayEmpty, \* whether the installed Pillow converts a zero-size array
  configured,     \* genai.configure has been called
  vision_model,   \* the module-level GenerativeModel, "unset" until created
  ui,             \* which Blocks is served: "none", "error" or "analysis"
  stdout,         \* the set of lines printed so far
  pc,             \* per handler invocation slot: position in image_analyzer
  image,          \* per slot: the argument of image_analyzer
  calls,          \* per slot: generate_content requests issued by this invocation
  response,       \* per slot: what generate_content produced for this invocation
  outcome,        \* per slot: "none", "returned" or "raised"
  result          \* per slot: the string returned to Gradio

vars == <<phase, cred, fromarrayEmpty, configured, vision_model, ui, stdout,
          pc, image, calls, response, outcome, result>>

\* Number of handler invocations Gradio may have in flight at once.
NumWorkers == 2

Workers == 1..NumWorkers

(***************************************************************************)
(* String literals of the program.                                         *)
(***************************************************************************)
PLEASE_UPLOAD ==
  <<"P","l","e","a","s","e"," ","u","p","l","o","a","d"," ","a","n"," ","i",
    "m","a","g","e"," ","f","i","r","s","t",".">>

RETRY_MESSAGE ==
  <<"A","n"," ","e","r","r","o","r"," ","o","c","c","u","r","r","e","d"," ",
    "w","h","i","l","e"," ","c","o","m","m","u","n","i","c","a","t","i","n",
    "g"," ","w","i","t","h"," ","t","h","e"," ","A","I","."," ","P","l","e",
    "a","s","e"," ","t","r","y"," ","a","g","a","i","n",".">>

BLOCKED_PREFIX ==
  <<"CROSS_MARK"," ","*","*","A","n","a","l","y","s","i","s"," ","B","l",
    "o","c","k","e","d","*","*"," ","CROSS_MARK","\n","\n","T","h","e"," ",
    "i","m","a","g","e"," ","c","o","u","l","d"," ","n","o","t"," ","b","e",
    " ","p","r","o","c","e","s","s","e","d","."," ","T","h","i","s"," ","i",
    "s"," ","l","i","k","e","l","y"," ","b","e","c","a","u","s","e"," ","i",
    "t"," ","w","a","s"," ","f","l","a","g","g","e","d"," ","f","o","r"," ",
    "a"," ","s","a","f","e","t","y"," ","r","e","a","s","o","n"," ","(","e",
    ".","g",".",","," ","i","t"," ","m","a","y"," ","c","o","n","t","a","i",
    "n"," ","i","n","a","p","p","r","o","p","r","i","a","t","e"," ","c","o",
    "n","t","e","n","t",")",".","\n","\n","R","e","a","s","o","n"," ","p",
    "r","o","v","i","d","e","d"," ","b","y"," ","t","h","e"," ","A","P","I",
    ":"," ","*","*">>

BLOCKED_SUFFIX ==
  <<"*","*">>

UNKNOWN ==
  <<"u","n","k","n","o","w","n">>

PROMPT ==
  "\n    You are an expert image analyst. Your task is to analyze the provided image and give a structured response with three distinct parts.\n    \n    1.  **Detailed Description:**\n        Provide a detailed, multi-sentence paragraph describing the image. Mention the main subject, the setting, colors, mood, and any important details.\n    \n    2.  **Location Identification:**\n        Analyze if the image contains a recognizable real-world landmark, city, or natural wonder. If you identify a specific place, state its name clearly. If it's a generic location or unidentifiable, state \"Location is not a recognizable landmark.\"\n    \n    3.  **AI Generation Analysis:**\n        Carefully examine the image for signs of being AI-generated (e.g., unnatural textures, errors in details like hands or text, overly perfect composition). Provide your estimation as a percentage of the likelihood that this image was created by an AI. Format your answer exactly as: \"AI Generation Likelihood: [a number between 0 and 100]%\".\n    "

EMPTY_STR == <<>>

(***************************************************************************)
(* str.lower() and str.replace('_', ' ') as Python computes them.          *)
(***************************************************************************)
UPPER ==
  <<"A","B","C","D","E","F","G","H","I","J","K","L","M","N","O","P","Q","R",
    "S","T","U","V","W","X","Y","Z">>

LOWER ==
  <<"a","b","c","d","e","f","g","h","i","j","k","l","m","n","o","p","q","r",
    "s","t","u","v","w","x","y","z">>

LowerChar(c) ==
  IF \E k \in 1..Len(UPPER) : UPPER[k] = c
    THEN LOWER[CHOOSE k \in 1..Len(UPPER) : UPPER[k] = c]
    ELSE c

StrLower(s) == [k \in 1..Len(s) |-> LowerChar(s[k])]

StrReplace(s, old, new) == [k \in 1..Len(s) |-> IF s[k] = old THEN new ELSE s[k]]

\* Python's  t in s  for strings.
Contains(s, t) ==
  \E k \in 0..(Len(s) - Len(t)) : SubSeq(s, k + 1, k + Len(t)) = t

(***************************************************************************)
(* Inputs.                                                                 *)
(***************************************************************************)
Credentials == {"absent", "empty", "valid"}

\* Arguments Gradio (or any caller) can pass: None, a zero-size array, an
\* array Pillow has no mode for, and an ordinary picture.
Images == {"None", "empty", "malformed", "photo"}

\* Members of the client library's BlockReason enum: name and integer value.
BLOCK_REASON_UNSPECIFIED ==
  [name |-> <<"B","L","O","C","K","_","R","E","A","S","O","N","_","U","N","S",
              "P","E","C","I","F","I","E","D">>, value |-> 0]

SAFETY == [name |-> <<"S","A","F","E","T","Y">>, value |-> 1]

PROHIBITED_CONTENT ==
  [name |-> <<"P","R","O","H","I","B","I","T","E","D","_","C","O","N","T","E",
              "N","T">>, value |-> 4]

BlockReasons == {BLOCK_REASON_UNSPECIFIED, SAFETY, PROHIBITED_CONTENT}

\* response.prompt_feedback: a message that is falsy when nothing is set.
NoFeedback == [present |-> FALSE, block_reason |-> BLOCK_REASON_UNSPECIFIED]

Feedbacks == {NoFeedback} \cup {[present |-> TRUE, block_reason |-> b] : b \in BlockReasons}

HELLO_WORLD == <<"H","e","l","l","o"," ","w","o","r","l","d">>

MIXED_TEXT == <<" ","A","_","b","\n">>

Texts == {HELLO_WORLD, MIXED_TEXT}

QUOTA_FAULT == <<"4","2","9"," ","q","u","o","t","a">>

TIMEOUT_FAULT == <<"t","i","m","e","d"," ","o","u","t">>

NoResponse ==
  [kind |-> "none", parts |-> 0, text |-> EMPTY_STR,
   prompt_feedback |-> NoFeedback, detail |-> EMPTY_STR]

\* What one generate_content call can produce: a response with content
\* parts and text, a response with parts whose .text accessor raises, a
\* response without parts (with any prompt feedback), or an exception.
ServiceOutcomes ==
  {[NoResponse EXCEPT !.kind = "text", !.parts = 1, !.text = t] : t \in Texts}
  \cup {[NoResponse EXCEPT !.kind = "unreadable", !.parts = 1, !.detail = TIMEOUT_FAULT]}
  \cup {[NoResponse EXCEPT !.kind = "no_parts", !.prompt_feedback = f] : f \in Feedbacks}
  \cup {[NoResponse EXCEPT !.kind = "fault", !.detail = d] : d \in {QUOTA_FAULT, TIMEOUT_FAULT}}

(***************************************************************************)
(* Start-up: lines 13-30 and 107-140.                                      *)
(***************************************************************************)
\* Variant that only tests that the variable exists (lines 15-16 dropped).
CredentialOKPresentOnly(c) == c # "absent"

\* Lines 14-16: the key must be in the environment and be non-empty.
CredentialOK(c) == c = "valid"

Line(tag, detail) == [tag |-> tag, detail |-> detail]

Init ==
  /\ phase = "configure"
  /\ cred \in Credentials
  /\ fromarrayEmpty \in BOOLEAN
  /\ configured = FALSE
  /\ vision_model = "unset"
  /\ ui = "none"
  /\ stdout = {}
  /\ pc = [w \in Workers |-> "idle"]
  /\ image = [w \in Workers |-> "None"]
  /\ calls = [w \in Workers |-> <<>>]
  /\ response = [w \in Workers |-> NoResponse]
  /\ outcome = [w \in Workers |-> "none"]
  /\ result = [w \in Workers |-> EMPTY_STR]

handlerVars == <<pc, image, calls, response, outcome, result>>

\* Lines 13-18: the try block succeeds.
ConfigureOK ==
  /\ phase = "configure"
  /\ CredentialOK(cred)
  /\ configured' = TRUE
  /\ stdout' = stdout \cup {Line("configured", EMPTY_STR)}
  /\ phase' = "create_model"
  /\ UNCHANGED <<cred, fromarrayEmpty, vision_model, ui, handlerVars>>

\* Lines 19-24: KeyError or ValueError; the error Blocks is built and served.
ConfigureFailed ==
  /\ phase = "configure"
  /\ ~CredentialOK(cred)
  /\ stdout' = stdout \cup {Line("config_error", EMPTY_STR)}
  /\ ui' = "error"
  /\ phase' = "error_serving"
  /\ UNCHANGED <<cred, fromarrayEmpty, configured, vision_model, handlerVars>>

\* Line 25: exit() once the error page's launch() returns.
ErrorExit ==
  /\ phase = "error_serving"
  /\ phase' = "exited"
  /\ ui' = "none"
  /\ UNCHANGED <<cred, fromarrayEmpty, configured, vision_model, stdout, handlerVars>>

\* Line 30.
CreateModel ==
  /\ phase = "create_model"
  /\ vision_model' = "gemini-1.5-flash-latest"
  /\ phase' = "define_ui"
  /\ UNCHANGED <<cred, fromarrayEmpty, configured, ui, stdout, handlerVars>>

\* Lines 107-140: the analysis Blocks with its button wired to
\* image_analyzer, then launch().
LaunchUI ==
  /\ phase = "define_ui"
  /\ ui' = "analysis"
  /\ phase' = "serving"
  /\ UNCHANGED <<cred, fromarrayEmpty, configured, vision_model, stdout, handlerVars>>

startupVars == <<phase, cred, fromarrayEmpty, configured, vision_model, ui>>

(***************************************************************************)
(* image_analyzer and get_gemini_vision_response.                          *)
(***************************************************************************)
\* Variant without the None test.
IsNoneNever(img) == FALSE

\* Line 79.
IsNone(img) == img = "None"

\* Line 83, Image.fromarray: a PIL image holding the array's pixels, or an
\* exception ("raise").  None has no array interface; an array with an
\* unsupported shape or dtype has no mode; a zero-size array converts or
\* not depending on the installed Pillow.
FromArray(img) ==
  IF \/ img = "None"
     \/ img = "malformed"
     \/ img = "empty" /\ ~fromarrayEmpty
    THEN [ok |-> FALSE, pil |-> "none"]
    ELSE [ok |-> TRUE, pil |-> img]

\* Variant that sends the request a second time.
IssueCallTwice(cs, prompt, pil_image) ==
  Append(Append(cs, [prompt |-> prompt, image |-> pil_image]),
         [prompt |-> prompt, image |-> pil_image])

\* Line 46: the single multi-part request [prompt, image].
IssueCall(cs, prompt, pil_image) ==
  Append(cs, [prompt |-> prompt, image |-> pil_image])

\* Variant that tests only prompt_feedback, not its block_reason.
HasBlockReasonFeedbackOnly(r) == r.prompt_feedback.present

\* Line 52: truthiness of prompt_feedback and of its block_reason.
HasBlockReason(r) ==
  r.prompt_feedback.present /\ r.prompt_feedback.block_reason.value # 0

\* Variant without lower().
BlockReasonTextNoLower(b) == StrReplace(b.name, "_", " ")

\* Line 53.
BlockReasonText(b) == StrReplace(StrLower(b.name), "_", " ")

\* Lines 51-53.
BlockReasonOf(r) == IF HasBlockReason(r) THEN BlockReasonText(r.prompt_feedback.block_reason) ELSE UNKNOWN

\* Lines 55-57.
ErrorMessage(block_reason) == BLOCKED_PREFIX \o block_reason \o BLOCKED_SUFFIX

\* Variant that strips surrounding whitespace from the text.
RECURSIVE StripLeft(_)
StripLeft(s) == IF s # <<>> /\ Head(s) \in {" ", "\n"} THEN StripLeft(Tail(s)) ELSE s

RECURSIVE StripRight(_)
StripRight(s) ==
  IF s # <<>> /\ s[Len(s)] \in {" ", "\n"} THEN StripRight(SubSeq(s, 1, Len(s) - 1)) ELSE s

ResponseTextStripped(r) == StripRight(StripLeft(r.text))

\* Line 60.
ResponseText(r) == r.text

\* Variant that puts the exception text into the returned string.
FaultMessageWithDetail(detail) == RETRY_MESSAGE \o <<" ">> \o detail

\* Line 65.
FaultMessage(detail) == RETRY_MESSAGE

\* Whether the try body of lines 44-60 raises: generate_content raised, or
\* response.text raised.
Raises(r) == r.kind \in {"fault", "unreadable"}

\* Lines 44-65 after generate_content has produced r.
Interpret(r) ==
  IF Raises(r) THEN FaultMessage(r.detail)
  ELSE IF r.parts = 0 THEN ErrorMessage(BlockReasonOf(r))
  ELSE ResponseText(r)

\* Variant that keeps the response in one module-level variable.
SharedResponse(w) == response[1]

\* The response object the handler of slot w reads: its own local variable.
LocalResponse(w) == response[w]

\* The button is clicked (line 123): Gradio calls image_analyzer(img).
Click(w, img) ==
  /\ phase = "serving"
  /\ ui = "analysis"
  /\ pc[w] \in {"idle", "done"}
  /\ pc' = [pc EXCEPT ![w] = "entered"]
  /\ image' = [image EXCEPT ![w] = img]
  /\ calls' = [calls EXCEPT ![w] = <<>>]
  /\ response' = [response EXCEPT ![w] = NoResponse]
  /\ outcome' = [outcome EXCEPT ![w] = "none"]
  /\ result' = [result EXCEPT ![w] = EMPTY_STR]
  /\ UNCHANGED <<startupVars, stdout>>

\* Lines 79-80: no image.
ReturnNoImage(w) ==
  /\ pc[w] = "entered"
  /\ IsNone(image[w])
  /\ pc' = [pc EXCEPT ![w] = "done"]
  /\ outcome' = [outcome EXCEPT ![w] = "returned"]
  /\ result' = [result EXCEPT ![w] = PLEASE_UPLOAD]
  /\ UNCHANGED <<startupVars, stdout, image, calls, response>>

\* Line 83 raising: nothing around it catches, the exception leaves
\* image_analyzer.
ConvertRaises(w) ==
  /\ pc[w] = "entered"
  /\ ~IsNone(image[w])
  /\ ~FromArray(image[w]).ok
  /\ pc' = [pc EXCEPT ![w] = "done"]
  /\ outcome' = [outcome EXCEPT ![w] = "raised"]
  /\ UNCHANGED <<startupVars, stdout, image, calls, response, result>>

\* Lines 83-100 and 44-46: convert, build the prompt, call generate_content
\* and block on it.
SendRequest(w) ==
  /\ pc[w] = "entered"
  /\ ~IsNone(image[w])
  /\ FromArray(image[w]).ok
  /\ calls' = [calls EXCEPT ![w] = IssueCall(calls[w], PROMPT, FromArray(image[w]).pil)]
  /\ pc' = [pc EXCEPT ![w] = "waiting"]
  /\ UNCHANGED <<startupVars, stdout, image, response, outcome, result>>

\* The service answers the request of slot w (or the call raises).
ServiceResponds(w, r) ==
  /\ pc[w] = "waiting"
  /\ response' = [response EXCEPT ![w] = r]
  /\ pc' = [pc EXCEPT ![w] = "responded"]
  /\ UNCHANGED <<startupVars, stdout, image, calls, outcome, result>>

\* Lines 49-65 and 102: interpret the response, print a caught exception,
\* return the string.
HandleResponse(w) ==
  /\ pc[w] = "responded"
  /\ result' = [result EXCEPT ![w] = Interpret(LocalResponse(w))]
  /\ outcome' = [outcome EXCEPT ![w] = "returned"]
  /\ stdout' = IF Raises(LocalResponse(w))
                 THEN stdout \cup {Line("unexpected_error", LocalResponse(w).detail)}
                 ELSE stdout
  /\ pc' = [pc EXCEPT ![w] = "done"]
  /\ UNCHANGED <<startupVars, image, calls, response>>

Next ==
  \/ ConfigureOK
  \/ ConfigureFailed
  \/ ErrorExit
  \/ CreateModel
  \/ LaunchUI
  \/ \E w \in Workers, img \in Images : Click(w, img)
  \/ \E w \in Workers : ReturnNoImage(w)
  \/ \E w \in Workers : ConvertRaises(w)
  \/ \E w \in Workers : SendRequest(w)
  \/ \E w \in Workers, r \in ServiceOutcomes : ServiceResponds(w, r)
  \/ \E w \in Workers : HandleResponse(w)

Spec == Init /\ [][Next]_vars

\* The handler runs to its return once called, and the service is assumed
\* to answer every request; clicks are up to the user.
FairSpec ==
  /\ Spec
  /\ \A w \in Workers :
       /\ WF_vars(ReturnNoImage(w))
       /\ WF_vars(ConvertRaises(w))
       /\ WF_vars(SendRequest(w))
       /\ WF_vars(\E r \in ServiceOutcomes : ServiceResponds(w, r))
       /\ WF_vars(HandleResponse(w))

TypeOK ==
  /\ phase \in {"configure", "create_model", "define_ui", "serving", "error_serving", "exited"}
  /\ cred \in Credentials
  /\ ui \in {"none", "error", "analysis"}
  /\ \A w \in Workers :
       /\ pc[w] \in {"idle", "entered", "waiting", "responded", "done"}
       /\ image[w] \in Images
       /\ outcome[w] \in {"none", "returned", "raised"}
       /\ response[w] \in ServiceOutcomes \cup {NoResponse}
(***************************************************************************)
(* Properties.                                                             *)
(***************************************************************************)
Done(w) == pc[w] = "done"

StartsWith(s, p) == Len(s) >= Len(p) /\ SubSeq(s, 1, Len(p)) = p

\* C1 (as stated): for every empty or null image input, image_analyzer
\* returns the fixed instructional string and issues no service call.
C1_EmptyOrNullGetsInstruction ==
  \A w \in Workers :
    Done(w) /\ image[w] \in {"None", "empty"} =>
      /\ outcome[w] = "returned"
      /\ result[w] = PLEASE_UPLOAD
      /\ calls[w] = <<>>

\* C1 (amended): for every null (None) image input, image_analyzer returns
\* the fixed instructional string, and at no point of that invocation has a
\* service call been issued or is one pending.
C1_NullGetsInstruction ==
  \A w \in Workers :
    image[w] = "None" /\ pc[w] # "idle" =>
      /\ calls[w] = <<>>
      /\ pc[w] \in {"entered", "done"}
      /\ Done(w) => outcome[w] = "returned" /\ result[w] = PLEASE_UPLOAD

C1_Witness ==
  \E w \in Workers :
    Done(w) /\ image[w] = "None" /\ result[w] = PLEASE_UPLOAD /\ calls[w] = <<>>

\* C2: whatever the image and whatever the service does, image_analyzer
\* returns a string and no exception leaves it, a conversion fault included.
C2_NoExceptionPropagates ==
  \A w \in Workers : Done(w) => outcome[w] = "returned"

\* C3: when the inference call, or reading its response, raises, the caller
\* gets the one fixed retry string, with nothing of the fault in it, and the
\* fault is not re-raised.
C3_FaultGivesRetryMessage ==
  \A w \in Workers :
    Done(w) /\ response[w].kind \in {"fault", "unreadable"} =>
      /\ outcome[w] = "returned"
      /\ result[w] = RETRY_MESSAGE
      /\ ~Contains(result[w], response[w].detail)

C3_Witness ==
  /\ \E w \in Workers : Done(w) /\ response[w].kind = "fault" /\ response[w].detail = QUOTA_FAULT
  /\ Line("unexpected_error", QUOTA_FAULT) \in stdout

\* C4: when the service returns at least one content part and text T,
\* image_analyzer returns exactly T.
C4_TextReturnedUnmodified ==
  \A w \in Workers :
    Done(w) /\ response[w].kind = "text" /\ response[w].parts >= 1 =>
      outcome[w] = "returned" /\ result[w] = response[w].text

C4_Witness ==
  \E w \in Workers : Done(w) /\ response[w].kind = "text" /\ result[w] = MIXED_TEXT

BlockedWith(w) ==
  /\ Done(w)
  /\ response[w].kind = "no_parts"
  /\ response[w].prompt_feedback.present
  /\ response[w].prompt_feedback.block_reason # BLOCK_REASON_UNSPECIFIED

\* C5 (as stated): with zero content parts and a block reason R, the
\* returned string is the blocked-analysis message and contains the
\* lower-cased name of R.
C5_ContainsLowerCasedName ==
  \A w \in Workers :
    BlockedWith(w) =>
      /\ StartsWith(result[w], BLOCKED_PREFIX)
      /\ Contains(result[w], StrLower(response[w].prompt_feedback.block_reason.name))

\* C5 (amended): with zero content parts and a block reason R, the returned
\* string is the blocked-analysis message and contains the lower-cased name
\* of R with every underscore replaced by a space; no response text is
\* returned.
C5_ContainsSpacedLowerCasedName ==
  \A w \in Workers :
    BlockedWith(w) =>
      /\ outcome[w] = "returned"
      /\ StartsWith(result[w], BLOCKED_PREFIX)
      /\ Contains(result[w],
                  StrReplace(StrLower(response[w].prompt_feedback.block_reason.name), "_", " "))
      /\ \A t \in Texts : result[w] # t

C5_Witness ==
  \E w \in Workers :
    /\ BlockedWith(w)
    /\ response[w].prompt_feedback.block_reason = PROHIBITED_CONTENT
    /\ Contains(result[w], <<"p","r","o","h","i","b","i","t","e","d"," ","c","o","n","t","e","n","t">>)

\* C6: with zero content parts and no block reason (no prompt feedback, or
\* feedback whose block reason is unset), the returned string is the
\* blocked-analysis message and contains "unknown".
C6_NoReasonGivesUnknown ==
  \A w \in Workers :
    /\ Done(w)
    /\ response[w].kind = "no_parts"
    /\ \/ ~response[w].prompt_feedback.present
       \/ response[w].prompt_feedback.block_reason = BLOCK_REASON_UNSPECIFIED
    => /\ outcome[w] = "returned"
       /\ StartsWith(result[w], BLOCKED_PREFIX)
       /\ Contains(result[w], <<"u","n","k","n","o","w","n">>)

C6_Witness ==
  \E w \in Workers :
    /\ Done(w)
    /\ response[w].kind = "no_parts"
    /\ response[w].prompt_feedback.present
    /\ response[w].prompt_feedback.block_reason = BLOCK_REASON_UNSPECIFIED
    /\ outcome[w] = "returned"

\* C7: with the credential missing (absent or empty) at start-up, no
\* inference call is ever attempted, the model object is never created and
\* the analysis UI never becomes interactive; once the configuration step
\* has run, only the error notice is or was served.
C7_MissingCredentialOnlyErrorNotice ==
  cred # "valid" =>
    /\ ui # "analysis"
    /\ ~configured
    /\ vision_model = "unset"
    /\ \A w \in Workers : pc[w] = "idle" /\ calls[w] = <<>>
    /\ phase \in {"configure", "error_serving", "exited"}
    /\ phase = "error_serving" => ui = "error"

C7_Witness == cred = "empty" /\ phase = "error_serving" /\ ui = "error"

\* C8 (as stated): every invocation with a supplied image issues exactly
\* one service call.
C8_ExactlyOneCall ==
  \A w \in Workers : Done(w) /\ image[w] # "None" => Len(calls[w]) = 1

\* C8 (amended): every invocation with a supplied image issues at most one
\* service call: exactly one, carrying the fixed prompt and that
\* invocation's image, once the image has been converted, and none when the
\* conversion raises; no second call follows a text, a part-less response
\* or a fault.
C8_OneCallOnceConverted ==
  \A w \in Workers :
    /\ Len(calls[w]) <= 1
    /\ pc[w] \in {"waiting", "responded"} \/ (Done(w) /\ response[w].kind # "none") =>
         calls[w] = <<[prompt |-> PROMPT, image |-> image[w]]>>
    /\ Done(w) /\ outcome[w] = "raised" => calls[w] = <<>>

C8_Witness ==
  \E w \in Workers :
    Done(w) /\ response[w].kind = "fault" /\ image[w] = "empty" /\ Len(calls[w]) = 1

Touched(w) ==
  \/ pc'[w] # pc[w]
  \/ image'[w] # image[w]
  \/ calls'[w] # calls[w]
  \/ response'[w] # response[w]
  \/ outcome'[w] # outcome[w]
  \/ result'[w] # result[w]

\* C9: under any interleaving of overlapping invocations, each result is
\* determined by the invocation's own image and own service response (two
\* finished invocations with the same image and response have the same
\* result, whatever ran in between), and a step of one invocation writes
\* no state of another.
C9_InvocationsIndependent ==
  /\ [](\A v, w \in Workers :
          /\ Done(v) /\ Done(w)
          /\ image[v] = image[w]
          /\ response[v] = response[w]
          => outcome[v] = outcome[w] /\ result[v] = result[w])
  /\ [][\A v, w \in Workers : Touched(v) /\ Touched(w) => v = w]_vars

C9_Witness ==
  \E v, w \in Workers :
    /\ v # w
    /\ Done(v) /\ Done(w)
    /\ image[v] = "photo" /\ image[w] = "empty"
    /\ response[v].kind = "text" /\ result[v] = HELLO_WORLD
    /\ response[w].kind = "fault" /\ result[w] = RETRY_MESSAGE

\* C10: given that the service eventually answers or faults, every
\* invocation of image_analyzer eventually returns a result string to its
\* caller.
C10_EveryInvocationReturnsAString ==
  \A w \in Workers : (pc[w] = "entered") ~> (Done(w) /\ outcome[w] = "returned")
====
